---- MODULE Spec2Model ----
(***************************************************************************)
(* A model of the generation pipelines of class AIService                   *)
(* (app/api/ai_services.py): generate_email_content, generate_poster and    *)
(* generate_invitation, with their provider adapters, their fallback        *)
(* templates and the image stages.  Where a method is defined twice in the  *)
(* class, the later definition is the one Python binds, and the one         *)
(* modelled here.                                                           *)
(*                                                                          *)
(* Text is a sequence of lines (the result of split('\n')), a line is a     *)
(* sequence of tokens.  An image is a record of its origin, its size,       *)
(* whether its pixel data can be decoded, and the stages applied to it.     *)
(***************************************************************************)
EXTENDS Integers, Sequences, FiniteSets, TLC

\* ------------------------------------------------------------------ bounds
\* Lines in one response of the text provider.
MaxLines == 3

\* ------------------------------------------------------------------ values
\* Python's None, as a value of a request field or of a response.
Null == "<None>"
\* A key the request mapping does not hold.
Absent == "<absent>"
\* No result yet (the operation has not returned).
NoResult == [status |-> "none"]

\* dict.get(key, default): the default only when the key is missing.
Get(data, key, default) == IF data[key] = Absent THEN default ELSE data[key]
\* str(v) inside an f-string.
Fmt(v) == IF v = Null THEN "None" ELSE v
\* Truthiness of an optional string field.
Truthy(v) == v # Null /\ v # Absent /\ v # ""

\* ------------------------------------------------------------ text helpers
Space == " "

RECURSIVE LStrip(_)
LStrip(l) == IF l # <<>> /\ Head(l) = Space THEN LStrip(Tail(l)) ELSE l

RECURSIVE RStrip(_)
RStrip(l) ==
    IF l # <<>> /\ l[Len(l)] = Space THEN RStrip(SubSeq(l, 1, Len(l) - 1)) ELSE l

\* str.strip() of one line.
Strip(l) == RStrip(LStrip(l))

\* line.replace(t, '')
Remove(l, t) == SelectSeq(l, LAMBDA x : x # t)

\* line.split(t)[0]
RECURSIVE BeforeFirst(_, _)
BeforeFirst(l, t) ==
    IF l = <<>> \/ Head(l) = t THEN <<>>
    ELSE <<Head(l)>> \o BeforeFirst(Tail(l), t)

\* A text is the empty string when it has no line, or one line without tokens.
IsEmptyStr(text) == text = <<>> \/ text = << <<>> >>
\* not text.strip(): nothing but whitespace in it.
IsBlank(text) == \A i \in 1..Len(text) : Strip(text[i]) = <<>>

\* Tokens whose first character is a lower-case letter, and their capitalised form.
LowerInitial == {"w", "techfest@college.edu"}
Upper(t) ==
    CASE t = "w" -> "W"
      [] t = "techfest@college.edu" -> "Techfest@college.edu"
      [] OTHER -> t

\* The lines a text provider may answer with: markers, words and whitespace in
\* the positions the parser distinguishes.
LineShapes ==
    { <<>>,
      <<Space>>,
      <<"w">>,
      <<"W", Space, "w">>,
      <<"SUBJECT:">>,
      <<"SUBJECT:", Space, "W">>,
      <<"SUBJECT:", Space, "W", Space, "BODY:", Space, "w">>,
      <<"SUBJECT:", "BODY:">>,
      <<"BODY:">>,
      <<Space, "BODY:", Space, "w", Space>>,
      <<"w", Space, "SUBJECT:", Space, "w">> }

Texts == UNION { [1..k -> LineShapes] : k \in 1..MaxLines }

\* ------------------------------------------------------------------- email
\* _generate_professional_subject: the three templates of the event type (or the
\* default three), one picked by random.choice.
SubjectTemplates(data) ==
    LET n == data.event_name IN
    CASE data.event_type = "workshop" ->
            << <<"Master New Skills:", n, "Workshop">>,
               <<"Hands-On Learning:", n, "- Register Now!">>,
               <<"Expert-Led Workshop:", n, "- Limited Spots">> >>
      [] data.event_type = "conference" ->
            << <<"Don't Miss:", n, "Conference 2024">>,
               <<"Industry Insights:", n, "- Secure Your Seat">>,
               <<"Network & Learn:", n, "Conference Invitation">> >>
      [] data.event_type = "social" ->
            << <<"You're Invited:", n, "Social Gathering">>,
               <<"Join the Celebration:", n, "- RSVP Today!">>,
               <<"Connect & Celebrate:", n, "Event">> >>
      [] OTHER ->
            << <<"Important:", n, "- Your Invitation">>,
               <<"Don't Miss Out:", n, "Event">>,
               <<"Exclusive Invitation:", n>> >>

GenerateProfessionalSubject(data, pick) == SubjectTemplates(data)[pick]

\* The KEY HIGHLIGHTS block of the email template.
RECURSIVE Bullets(_)
Bullets(points) ==
    IF points = <<>> THEN <<>>
    ELSE << <<"*", Head(points)>> >> \o Bullets(Tail(points))

DefaultHighlights ==
    << <<"*", "Expert-led sessions and workshops">>,
       <<"*", "Valuable networking opportunities", Space, Space>>,
       <<"*", "Cutting-edge insights and knowledge">>,
       <<"*", "Practical skills and takeaways">> >>

\* str.title() of an event type.
Title(t) ==
    CASE t = "conference" -> "Conference"
      [] t = "seminar" -> "Seminar"
      [] t = "workshop" -> "Workshop"
      [] t = "social" -> "Social"
      [] OTHER -> t

\* _professional_email_template: the fixed prose, one model line per source line
\* (the string starts and ends with a line break).
ProfessionalEmailTemplate(data) ==
    LET organizer == Fmt(Get(data, "organizer_name", "Event Organizing Team"))
        contact == Get(data, "contact_info", "")
    IN  << <<>>,
           <<"Dear Attendee,">>,
           <<>>,
           <<"You are cordially invited to an exceptional event that promises valuable insights and memorable experiences.">>,
           <<>>,
           <<"**EVENT DETAILS**">>,
           <<"Event:", Space, data.event_name>>,
           <<"Date:", Space, data.date>>,
           <<"Time:", Space, data.time>>,
           <<"Venue:", Space, data.venue>>,
           <<"Type:", Space, Title(data.event_type)>>,
           <<>>,
           <<"**ABOUT THIS EVENT**">>,
           <<"This", Space, data.event_type, Space, "is specially curated for", Space,
             Fmt(data.target_audience), Space,
             "and offers a unique opportunity for growth, networking, and professional development.">>,
           <<>>,
           <<"**KEY HIGHLIGHTS**">> >>
        \o (IF data.key_points # <<>> THEN Bullets(data.key_points)
            ELSE DefaultHighlights)
        \o << <<>>,
              <<"**WHY ATTEND?**">>,
              <<"- Gain valuable knowledge and skills">>,
              <<"- Network with peers and experts">>,
              <<"- Enhance your professional profile">>,
              <<"- Discover new opportunities">>,
              <<>>,
              <<"**REGISTRATION**">>,
              <<"Please confirm your attendance at your earliest convenience to secure your spot.">>,
              <<>>,
              <<"We are committed to delivering an exceptional experience and look forward to welcoming you to what promises to be an impactful event.">>,
              <<>>,
              <<"Best regards,">>,
              <<>>,
              <<organizer>>,
              (IF Truthy(contact) THEN <<contact>> ELSE <<>>),
              <<>>,
              <<"---">>,
              <<"This is an automated invitation. For any inquiries, please respond to this email.">>,
              <<>> >>

\* _professional_fallback_email_generation
ProfessionalFallbackEmailGeneration(data, pick) ==
    [ subject |-> GenerateProfessionalSubject(data, pick),
      body |-> ProfessionalEmailTemplate(data),
      status |-> "success",
      model_used |-> "professional-fallback-template" ]

\* _enhance_email_formatting: blank lines dropped, first letter capitalised,
\* the lines joined by '\n\n'.
Capitalize(line) ==
    IF Head(line) \in LowerInitial THEN <<Upper(Head(line))>> \o Tail(line) ELSE line

RECURSIVE JoinBlank(_)
JoinBlank(ls) ==
    IF Len(ls) <= 1 THEN ls ELSE <<Head(ls), <<>> >> \o JoinBlank(Tail(ls))

RECURSIVE FormattedLines(_)
FormattedLines(body) ==
    IF body = <<>> THEN <<>>
    ELSE LET line == Strip(Head(body)) IN
         (IF line # <<>> THEN <<Capitalize(line)>> ELSE <<>>)
            \o FormattedLines(Tail(body))

EnhanceEmailFormatting(body) == JoinBlank(FormattedLines(body))

\* The line loop of _parse_professional_email_response.
RECURSIVE ParseLoop(_, _, _, _, _)
ParseLoop(lines, i, subject, body_lines, in_body) ==
    IF i > Len(lines) THEN [subject |-> subject, body_lines |-> body_lines]
    ELSE
      LET line == Strip(lines[i]) IN
      IF line # <<>> /\ Head(line) = "SUBJECT:" /\ subject = <<>>
      THEN ParseLoop(lines, i + 1,
                     Strip(BeforeFirst(Strip(Remove(line, "SUBJECT:")), "BODY:")),
                     body_lines, in_body)
      ELSE IF line # <<>> /\ Head(line) = "BODY:"
      THEN LET body_content == Strip(Remove(line, "BODY:")) IN
           ParseLoop(lines, i + 1, subject,
                     IF body_content # <<>> THEN Append(body_lines, body_content)
                     ELSE body_lines,
                     TRUE)
      ELSE IF in_body /\ line # <<>>
      THEN ParseLoop(lines, i + 1, subject, Append(body_lines, line), in_body)
      ELSE ParseLoop(lines, i + 1, subject, body_lines, in_body)

\* A parser without the blank-body test: the body stays as parsed.
BodyAsParsed(body, data) == body

\* What _parse_professional_email_response puts in the body when the parsed body
\* is blank.
BodyOrTemplate(body, data) ==
    IF IsBlank(body) THEN ProfessionalEmailTemplate(data) ELSE body

\* _parse_professional_email_response on a text.
ParseProfessionalEmailResponse(response, data, pick) ==
    LET p == ParseLoop(response, 1, <<>>, <<>>, FALSE)
        body0 == IF p.body_lines # <<>> THEN p.body_lines ELSE response
        subject == IF p.subject = <<>> THEN GenerateProfessionalSubject(data, pick)
                   ELSE p.subject
    IN  [ subject |-> subject,
          body |-> EnhanceEmailFormatting(BodyOrTemplate(body0, data)),
          status |-> "success",
          model_used |-> "llama-3.1-70b-professional" ]

\* What the chat-completion call of the text provider does: it raises, it
\* answers with content None, or it answers with a text.
TextOutcomes == {"raises", "null", "text"}

\* key_points of a mapping that has no such key.
NoKeyPoints == <<Absent>>

\* A KeyError or AttributeError leaves generate_email_content: the prompt builder,
\* called outside the try block when the client is configured, reads
\* data['tone'].lower(), data['key_points'] and data['target_audience']; the
\* prose template, which every fallback path returns unguarded, reads
\* data['target_audience'] and data['key_points'].
EmailRaises(configured, data) ==
    \/ data.target_audience = Absent
    \/ data.key_points = NoKeyPoints
    \/ configured /\ data.tone \in {Absent, Null}

\* generate_email_content.  Content None makes response.split raise inside
\* _parse_professional_email_response, whose handler returns the fallback.
EmailContent(configured, outcome, text, data, pick) ==
    IF ~configured THEN ProfessionalFallbackEmailGeneration(data, pick)
    ELSE IF outcome = "raises" THEN ProfessionalFallbackEmailGeneration(data, pick)
    ELSE IF outcome = "null" THEN ProfessionalFallbackEmailGeneration(data, pick)
    ELSE ParseProfessionalEmailResponse(text, data, pick)

\* ------------------------------------------------------------------ images
\* image.size[0] < 1024: the width below which _apply_premium_enhancements
\* resizes the image to 1024 x 1024.
MinWorkingSize == 1024
\* The poster canvas of _generate_premium_template_poster and
\* _finalize_premium_poster.
PosterWidth == 1200
PosterHeight == 1600

\* image is None
NoImage == [src |-> "none", w |-> 0, h |-> 0, ok |-> FALSE, scheme |-> "none",
            applied |-> <<>>, stages |-> <<>>]

\* Sizes of the image an image provider may answer with.
ImageSizes == { <<512, 512>>, <<512, 2048>>, <<1024, 1024>>, <<1200, 1600>> }

\* What one HTTP request to an image model may meet:
\*   ok       200, an image that decodes
\*   bad      200, bytes Image.open identifies (it reads the header only) whose
\*            pixel data cannot be decoded: every later load() raises
\*   garbage  200, bytes Image.open cannot identify (it raises)
\*   s503, s500, s429  that status
\*   timeout, connerr  requests.post raises
RespKinds == {"ok", "bad", "garbage", "s503", "s500", "s429", "timeout", "connerr"}

PostRaises(kind) == kind \in {"timeout", "connerr"}
StatusCode(kind) ==
    CASE kind \in {"ok", "bad", "garbage"} -> 200
      [] kind = "s503" -> 503
      [] kind = "s500" -> 500
      [] kind = "s429" -> 429
      [] OTHER -> 0
OpenRaises(kind) == kind = "garbage"

\* Image.open(BytesIO(response.content))
OpenImage(kind, size, src) ==
    [src |-> src, w |-> size[1], h |-> size[2], ok |-> (kind = "ok"),
     scheme |-> "none", applied |-> <<>>, stages |-> <<>>]

\* The model endpoints, and the models _generate_with_dalle_style tries in order.
Endpoints == {"sdxl", "flux", "sd15"}
DalleModels == <<"flux", "sdxl", "sd15">>

\* An SDXL adapter whose POST is outside its try block.
GenerateWithSdxlUnguarded(kind) ==
    IF PostRaises(kind) THEN "raise"
    ELSE IF StatusCode(kind) = 200
         THEN (IF OpenRaises(kind) THEN "none" ELSE "image")
         ELSE "none"

\* _generate_with_sdxl_premium after the POST: "image", or "none" (return None);
\* "raise" would be an exception leaving the adapter.
GenerateWithSdxlPremium(kind) ==
    IF PostRaises(kind) THEN "none"
    ELSE IF StatusCode(kind) = 200
         THEN (IF OpenRaises(kind) THEN "none" ELSE "image")
         ELSE "none"

\* One pass of the model loop of _generate_with_dalle_style: "image" (return it),
\* "next" (the loop goes on: an exception caught by the inner handler, or a
\* status other than 200); "raise" would be an exception leaving the adapter.
DalleModelAttempt(kind) ==
    IF PostRaises(kind) THEN "next"
    ELSE IF StatusCode(kind) = 200
         THEN (IF OpenRaises(kind) THEN "next" ELSE "image")
         ELSE "next"

\* ----------------------------------------------------------------- prompts
\* The keys of the lookup tables; an entry is named by its key.
PremiumThemes == {"cyberpunk", "elegant", "minimalistic", "vibrant", "professional",
                  "nature", "artistic", "tech"}
EventTypes == {"workshop", "conference", "social", "sports", "cultural", "tech",
               "seminar", "competition"}
DalleStyles == {"cyberpunk", "elegant", "professional"}
TemplateSchemes == {"cyberpunk", "elegant", "professional"}
InvitationSchemes == {"elegant", "royal", "modern", "classic"}

\* str.lower() of a theme or an event type.
Lower(t) ==
    CASE t = "Cyberpunk" -> "cyberpunk"
      [] t = "PROFESSIONAL" -> "professional"
      [] t = "Seminar" -> "seminar"
      [] t = "Gala" -> "gala"
      [] t = "Royal" -> "royal"
      [] OTHER -> t

\* A lookup by the key as written, with no default entry.
LookupExact(keys, key, default) == IF key \in keys THEN key ELSE ""

\* table.get(key.lower(), default)
Lookup(keys, key, default) == IF Lower(key) \in keys THEN Lower(key) ELSE default

\* _build_premium_poster_prompt: the theme and event fragments, with their defaults.
BuildPremiumPosterPrompt(data) ==
    << "Professional event poster design for", data.event_name,
       Lookup(EventTypes, data.event_type, "professional premium event"),
       Lookup(PremiumThemes, data.theme, "professional"),
       "no text" >>

\* _build_dalle_style_prompt
BuildDalleStylePrompt(data) ==
    << "professional event poster design for", data.event_name, data.event_type,
       Lookup(DalleStyles, data.theme, "professional corporate design::3 modern::2"),
       "no text, masterpiece" >>

\* _build_professional_email_prompt: the brief, with the event-type and tone
\* fragments and their defaults.
ToneGuides == {"formal", "casual", "enthusiastic", "informative", "fun"}
BuildProfessionalEmailPrompt(data) ==
    << "EVENT:", data.event_name,
       "TYPE:", Lookup(EventTypes, data.event_type, "professional gathering"),
       "VENUE:", data.venue,
       "TONE:", Lookup(ToneGuides, data.tone, "professional and engaging") >>

\* _build_premium_invitation_prompt: the brief, with the tone fragment.
InvitationTones == {"formal", "semi-formal", "casual", "festive", "corporate"}
BuildPremiumInvitationPrompt(data) ==
    << "EVENT:", data.event_name,
       "TONE:", Lookup(InvitationTones, Get(data, "tone", "formal"),
                       "elegant and sophisticated") >>

\* _get_premium_color_scheme
GetPremiumColorScheme(theme) == Lookup(InvitationSchemes, theme, "elegant")

\* ------------------------------------------------------------ image stages
\* _generate_premium_template_poster
GeneratePremiumTemplatePoster(data) ==
    [src |-> "template", w |-> PosterWidth, h |-> PosterHeight, ok |-> TRUE,
     scheme |-> Lookup(TemplateSchemes, data.theme, "professional"),
     applied |-> <<>>, stages |-> <<>>]

\* A chain that maps tones in crisp mode too.
EnhancementStepsAlwaysToned(image, crisp) ==
    (IF image.w < MinWorkingSize THEN <<"upscale">> ELSE <<>>)
    \o <<"detail", "unsharp", "contrast", "color", "brightness", "sharpness">>
    \o <<"tone_mapping">>
    \o <<"final_unsharp">>

\* The filter chain of _apply_premium_enhancements for this image.
EnhancementSteps(image, crisp) ==
    (IF image.w < MinWorkingSize THEN <<"upscale">> ELSE <<>>)
    \o <<"detail", "unsharp", "contrast", "color", "brightness", "sharpness">>
    \o (IF ~crisp THEN <<"tone_mapping">> ELSE <<>>)
    \o <<"final_unsharp">>

\* One step applied to an image.
ApplyStep(image, step) ==
    LET sized ==
          IF step = "upscale"
          THEN [image EXCEPT !.w = MinWorkingSize, !.h = MinWorkingSize]
          ELSE IF step = "fit_canvas"
          THEN [image EXCEPT !.w = PosterWidth, !.h = PosterHeight]
          ELSE image
    IN [sized EXCEPT !.applied = Append(@, step)]

\* Steps with a handler of their own: a failure inside skips the step alone.
SelfContained == {"tone_mapping", "corner_accents"}

\* A chain of steps inside one try block: the local variable image is reassigned
\* step by step, so when a step raises, the handler returns the image as the
\* steps before it left it and the steps after it are not run.  A step fails when
\* it is the injected fault or when the pixel data cannot be decoded.
RECURSIVE RunChain(_, _, _)
RunChain(image, steps, fault) ==
    IF steps = <<>> THEN image
    ELSE IF ~image.ok THEN image
    ELSE IF Head(steps) = fault
         THEN (IF fault \in SelfContained THEN RunChain(image, Tail(steps), fault)
               ELSE image)
    ELSE RunChain(ApplyStep(image, Head(steps)), Tail(steps), fault)

Staged(image, stage) == [image EXCEPT !.stages = Append(@, stage)]

\* _apply_premium_enhancements
ApplyPremiumEnhancements(image, crisp, fault) ==
    Staged(RunChain(image, EnhancementSteps(image, crisp), fault), "enhance")

\* _add_premium_text_overlay draws in place: what was drawn before a failure stays.
OverlaySteps == <<"bands", "title", "event_type", "details", "cta", "corner_accents">>
AddPremiumTextOverlay(image, fault) ==
    Staged(RunChain(image, OverlaySteps, fault), "overlay")

\* A finalizer without the size test and the resize.
FinalizeStepsUnsized(image) == <<"final_sharpen", "final_contrast">>

\* _finalize_premium_poster
FinalizeSteps(image) ==
    (IF <<image.w, image.h>> # <<PosterWidth, PosterHeight>> THEN <<"fit_canvas">>
     ELSE <<>>)
    \o <<"final_sharpen", "final_contrast">>
FinalizePremiumPoster(image, fault) ==
    Staged(RunChain(image, FinalizeSteps(image), fault), "finalize")

\* The steps that may raise on an image that decodes, per stage ("none": none
\* does): the filters and enhancers, which reject some image modes, and the
\* drawing calls.  A resize of a decoded image does not raise.
EnhanceFaults == {"none", "detail", "contrast", "tone_mapping", "final_unsharp"}
OverlayFaults == {"none", "title", "cta"}
FinalizeFaults == {"none", "final_sharpen", "final_contrast"}

\* The model_used tags of generate_poster.
TagSdxl == "stable-diffusion-xl-premium"
TagDalle == "dalle-style-premium"
TagTemplate == "premium-template"
TagException == "ultimate-premium-fallback"

\* A main path that tags every result as SDXL's.
PosterResultTaggedSdxl(image, data, tag) ==
    [ image_url |-> image,
      prompt_used |-> BuildPremiumPosterPrompt(data),
      status |-> "success",
      model_used |-> TagSdxl,
      dimensions |-> <<image.w, image.h>> ]

\* The result generate_poster returns on its main path.
PosterResult(image, data, tag) ==
    [ image_url |-> image,
      prompt_used |-> BuildPremiumPosterPrompt(data),
      status |-> "success",
      model_used |-> tag,
      dimensions |-> <<image.w, image.h>> ]

\* A handler that reports the exception instead of templating around it.
PosterErrorResult(data) ==
    [ image_url |-> NoImage,
      prompt_used |-> <<"premium-event-poster-design">>,
      status |-> "error",
      model_used |-> "ultimate-premium-fallback",
      dimensions |-> <<>> ]

\* The result generate_poster returns from its exception handler.
PosterFallbackResult(data) ==
    [ image_url |-> GeneratePremiumTemplatePoster(data),
      prompt_used |-> <<"premium-event-poster-design">>,
      status |-> "success",
      model_used |-> TagException,
      dimensions |-> <<>> ]

\* -------------------------------------------------------------- invitation
\* An optional value: None, or a value.
NoneVal == [some |-> FALSE, val |-> <<>>]
Some(v) == [some |-> TRUE, val |-> v]

\* The request strings and their lengths in characters.
LongName == "Tech Fest (an event name of 700 characters)"
StrLen(s) ==
    CASE s = "Tech Fest" -> 9
      [] s = LongName -> 700
      [] s = "rsvp@college.edu" -> 16
      [] s = "2024-03-15" -> 10
      [] OTHER -> 0

\* The characters of the mailto: string of _generate_premium_qr_code around its
\* four fields.
QrFixedLen == 126
\* Bytes a QR code of the largest version holds at error correction H (byte mode).
QrCapacity == 1273

QrContent(data) ==
    << "mailto:", data.rsvp_email, "?subject=RSVP for ", data.event_name,
       "&body=Dear Organizers,%0A%0AI am delighted to confirm my attendance for ",
       data.event_name, " on ", data.date, ".%0A%0AWith appreciation," >>

QrContentLen(data) ==
    QrFixedLen + StrLen(data.rsvp_email) + 2 * StrLen(data.event_name) + StrLen(data.date)

\* _generate_premium_qr_code: None without an rsvp_email; qr.make(fit=True) raises
\* DataOverflowError when the content exceeds the largest version, and the
\* handler returns None.
GeneratePremiumQrCode(data) ==
    IF ~Truthy(data.rsvp_email) THEN NoneVal
    ELSE IF QrContentLen(data) > QrCapacity THEN NoneVal
    ELSE Some(QrContent(data))

\* str.upper() of an event name.
UpperCase(n) ==
    CASE n = "Tech Fest" -> "TECH FEST"
      [] n = LongName -> "TECH FEST (AN EVENT NAME OF 700 CHARACTERS)"
      [] OTHER -> n

\* _premium_invitation_template
PremiumInvitationTemplate(data) ==
    LET organizer == Fmt(Get(data, "organizer_name", "The Event Organizing Committee"))
        rsvp_info ==
          IF Truthy(data.rsvp_deadline) /\ Truthy(data.rsvp_email)
          THEN << <<"Kindly honor us with your response by", Space, data.rsvp_deadline>>,
                  <<"Email:", Space, data.rsvp_email>> >>
          ELSE IF Truthy(data.rsvp_deadline)
          THEN << <<"Please RSVP by", Space, data.rsvp_deadline>> >>
          ELSE IF Truthy(data.rsvp_email)
          THEN << <<"RSVP Email:", Space, data.rsvp_email>> >>
          ELSE << <<"Your gracious response is requested at your earliest convenience">> >>
        dress_code == Fmt(Get(data, "dress_code", "Elegant Attire"))
        special_instructions ==
          Fmt(Get(data, "special_instructions",
                  "Join us for an evening of inspiration, connection, and celebration."))
    IN  << <<>>,
           <<"With great pleasure,">>,
           <<>>,
           <<organizer>>,
           <<>>,
           <<"requests the honor of your presence at">>,
           <<>>,
           <<UpperCase(data.event_name)>>,
           <<>>,
           <<"A distinguished", Space, Title(data.event_type), Space, "gathering">>,
           <<>>,
           <<"Date:", Space, data.date>>,
           <<"Time:", Space, data.time>>,
           <<"Venue:", Space, data.venue>>,
           <<"Attire:", Space, dress_code>>,
           <<>>,
           <<special_instructions>>,
           <<>> >>
        \o rsvp_info
        \o << <<>>,
              <<"We eagerly anticipate the pleasure of your company">>,
              <<"at this memorable occasion.">>,
              <<>>,
              <<"With warmest regards,">>,
              <<organizer>>,
              <<>> >>

\* The lines an invitation written by the text provider may hold; "cordially"
\* is one of the opening keywords of _format_premium_invitation, "regards," one
\* of its closing keywords.
OpeningKeywords == {"cordially"}
ClosingKeywords == {"regards,"}
InvitationLineShapes ==
    { <<>>,
      <<Space>>,
      <<"W">>,
      <<"You are", Space, "cordially", Space, "invited">>,
      <<"With warmest", Space, "regards,">> }
InvitationTexts == UNION { [1..k -> InvitationLineShapes] : k \in 1..MaxLines }

HasToken(line, set) == \E i \in 1..Len(line) : line[i] \in set

RECURSIVE StrippedNonEmpty(_)
StrippedNonEmpty(text) ==
    IF text = <<>> THEN <<>>
    ELSE (IF Strip(Head(text)) # <<>> THEN <<Strip(Head(text))>> ELSE <<>>)
            \o StrippedNonEmpty(Tail(text))

RECURSIVE SpaceSections(_, _)
SpaceSections(lines, out) ==
    IF lines = <<>> THEN out
    ELSE SpaceSections(Tail(lines),
            (IF HasToken(Head(lines), OpeningKeywords) /\ out # <<>>
             THEN Append(out, <<>>) ELSE out) \o <<Head(lines)>>)

\* _format_premium_invitation on a text: formatted_lines[-1] of no line raises
\* IndexError, a None organizer makes join raise TypeError; the handler returns the
\* text as it came.
FormatPremiumInvitation(text, data) ==
    LET formatted == SpaceSections(StrippedNonEmpty(text), <<>>)
        organizer == Get(data, "organizer_name", "The Event Hosts")
    IN  IF formatted = <<>> THEN text
        ELSE IF HasToken(formatted[Len(formatted)], ClosingKeywords) THEN formatted
        ELSE IF organizer = Null THEN text
        ELSE formatted \o << <<>>, <<"We look forward to celebrating with you,">>,
                             <<>>, <<organizer>> >>

\* _generate_premium_invitation_text.  raised: an exception leaves the method
\* (the prompt builder, called outside the try block, evaluates
\* data.get('tone', 'formal').lower(), which raises on a None tone).
GeneratePremiumInvitationText(configured, outcome, text, data) ==
    IF ~configured
    THEN [ raised |-> FALSE,
           invitation_text |-> Some(PremiumInvitationTemplate(data)),
           formatted_invitation |-> Some(PremiumInvitationTemplate(data)),
           model_used |-> "premium-template" ]
    ELSE IF data.tone = Null
    THEN [ raised |-> TRUE, invitation_text |-> NoneVal,
           formatted_invitation |-> NoneVal, model_used |-> "" ]
    ELSE IF outcome = "raises"
    THEN [ raised |-> FALSE,
           invitation_text |-> Some(PremiumInvitationTemplate(data)),
           formatted_invitation |-> Some(PremiumInvitationTemplate(data)),
           model_used |-> "premium-fallback" ]
    ELSE IF outcome = "null"
    THEN [ raised |-> FALSE, invitation_text |-> NoneVal,
           formatted_invitation |-> NoneVal,
           model_used |-> "llama-3.1-70b-premium" ]
    ELSE [ raised |-> FALSE,
           invitation_text |-> Some(text),
           formatted_invitation |-> Some(FormatPremiumInvitation(text, data)),
           model_used |-> "llama-3.1-70b-premium" ]

\* _generate_fallback_invitation_design: the A4 bitmap, or None when rendering
\* raises (as it does on a None invitation text).
GenerateFallbackInvitationDesign(data, invitation_text, render_fails) ==
    IF ~invitation_text.some \/ render_fails THEN NoneVal
    ELSE Some([src |-> "fallback-design", w |-> 2480, h |-> 3508,
               scheme |-> GetPremiumColorScheme(Get(data, "theme", "elegant"))])

\* _generate_dalle3_invitation_design
GenerateDalle3InvitationDesign(configured, image_ok, data, invitation_text, render_fails) ==
    IF configured /\ image_ok
    THEN Some([src |-> "dall-e-3", w |-> 1024, h |-> 1024, scheme |-> "none"])
    ELSE GenerateFallbackInvitationDesign(data, invitation_text, render_fails)

\* A fallback invitation that leaves its provenance blank.
UntaggedFallbackInvitation(data) ==
    [ invitation_text |-> Some(PremiumInvitationTemplate(data)),
      formatted_invitation |-> Some(PremiumInvitationTemplate(data)),
      qr_code_url |-> NoneVal,
      invitation_design |-> NoneVal,
      status |-> "success",
      model_used |-> "" ]

\* _professional_fallback_invitation_generation (the later of its two definitions)
ProfessionalFallbackInvitationGeneration(data) ==
    [ invitation_text |-> Some(PremiumInvitationTemplate(data)),
      formatted_invitation |-> Some(PremiumInvitationTemplate(data)),
      qr_code_url |-> IF Truthy(data.rsvp_email) THEN GeneratePremiumQrCode(data)
                      ELSE NoneVal,
      invitation_design |-> NoneVal,
      status |-> "success",
      model_used |-> "premium-fallback-template" ]

\* generate_invitation
Invitation(configured, outcome, text, image_ok, render_fails, data) ==
    LET t == GeneratePremiumInvitationText(configured, outcome, text, data) IN
    IF t.raised THEN ProfessionalFallbackInvitationGeneration(data)
    ELSE [ invitation_text |-> t.invitation_text,
           formatted_invitation |-> t.formatted_invitation,
           qr_code_url |-> GeneratePremiumQrCode(data),
           invitation_design |->
               GenerateDalle3InvitationDesign(configured, image_ok, data,
                                              t.invitation_text, render_fails),
           status |-> "success",
           model_used |-> t.model_used ]

\* ---------------------------------------------------------------- requests
\* The fields of a request mapping; an operation reads the ones it needs.
BaseRequest ==
    [ event_name |-> "Tech Fest", event_type |-> "conference",
      date |-> "2024-03-15", time |-> "9:00", venue |-> "Hall A",
      target_audience |-> Absent, tone |-> Absent, key_points |-> <<>>,
      contact_info |-> Absent, organizer_name |-> Absent,
      theme |-> Absent, crisp_mode |-> FALSE, generation_type |-> Absent,
      rsvp_deadline |-> Absent, rsvp_email |-> Absent,
      dress_code |-> Absent, special_instructions |-> Absent ]

\* Valid email requests: as EmailGenerationRequest.dict() yields them (optional
\* fields None), as the /test/email endpoint builds one, and as a plain mapping
\* without the optional keys.
EmailRequests ==
    { [BaseRequest EXCEPT !.target_audience = "Students and Faculty",
                          !.tone = "enthusiastic",
                          !.contact_info = Null, !.organizer_name = Null],
      [BaseRequest EXCEPT !.target_audience = "Students and Faculty",
                          !.tone = "enthusiastic",
                          !.key_points = <<"AI Workshops", "Hackathon">>,
                          !.contact_info = "techfest@college.edu",
                          !.organizer_name = "Computer Science Department"],
      [BaseRequest EXCEPT !.event_type = "seminar",
                          !.target_audience = "Students and Faculty",
                          !.tone = "formal"],
      [BaseRequest EXCEPT !.event_type = "Seminar",
                          !.target_audience = "Students and Faculty",
                          !.tone = "formal"],
      [BaseRequest EXCEPT !.event_type = "Gala",
                          !.target_audience = "Students and Faculty",
                          !.tone = "formal"] }

\* The mapping of the end-to-end scenario: event_name, event_type, date, time,
\* venue, theme and tone, and no other key.
MinimalRequest ==
    [BaseRequest EXCEPT !.theme = "professional", !.tone = "enthusiastic",
                        !.key_points = NoKeyPoints]

\* Valid poster requests.
PosterRequests ==
    { [MinimalRequest EXCEPT !.theme = th] : th \in {"professional", "retro", "Cyberpunk"} }
    \cup { [MinimalRequest EXCEPT !.crisp_mode = TRUE],
           [MinimalRequest EXCEPT !.event_type = "Gala"] }
    \cup { [MinimalRequest EXCEPT !.generation_type = g] :
             g \in {"background", "full_poster"} }

\* Valid invitation requests; tone is no field of InvitationGenerationRequest, a
\* mapping built elsewhere may hold it, as None too.
InvitationRequests ==
    { [BaseRequest EXCEPT !.event_name = n, !.rsvp_email = e, !.tone = t,
                          !.rsvp_deadline = Null, !.dress_code = Null,
                          !.special_instructions = Null] :
        n \in {"Tech Fest", LongName},
        e \in {Null, "", "rsvp@college.edu"},
        t \in {Absent, Null} }
    \cup { [BaseRequest EXCEPT !.theme = th, !.rsvp_email = Null,
                               !.rsvp_deadline = Null, !.dress_code = Null,
                               !.special_instructions = Null] :
             th \in {"Royal", "retro"} }

\* ------------------------------------------------------------------- state
VARIABLES
    groq_client,   \* AIService.groq_client is set (GROQ_API_KEY was given)
    hf_token,      \* settings.HF_API_TOKEN is set
    op,            \* the operation running: "none", "email", "poster", "invitation"
    pc,            \* where it is
    req,           \* request_data
    response,      \* what the text provider answered in this operation
    result,        \* the mapping the operation returned
    raised,        \* the operation let an exception out
    image,         \* generate_poster's local image
    model_used,    \* generate_poster's local model_used
    model_i,       \* index of the model _generate_with_dalle_style is at
    http,          \* the POST requests sent to image models, in order
    provider,      \* per endpoint: "loading" (answers 503 once, then 200),
                   \* "ready" (answers 200 next), "any"
    last_resp,     \* the kind of the last answer of an image model
    trace,         \* the stages generate_poster went through, with their outcome
    faulted,       \* the steps at which a rendering fault was met
    rng,           \* the state of the process-wide generator of module random
    calls,         \* the email invocations in progress on the shared instance
    given,         \* the request mapping as the caller built it, before the call
    web            \* an endpoint call: its progress, background tasks, the database

vars == << groq_client, hf_token, op, pc, req, response, result, raised, image,
           model_used, model_i, http, provider, last_resp, trace, faulted,
           rng, calls, given, web >>

NoResponse == [outcome |-> "none", text |-> <<>>, prompt |-> <<>>]

\* The requests in flight at once, and the states the generator is told apart by.
MaxCalls == 2
RngPeriod == 3
Calls == 1..MaxCalls

\* An invocation slot no request occupies.
IdleCall ==
    [ at |-> "idle", req |-> BaseRequest, outcome |-> "none", text |-> <<>>,
      drew |-> {}, result |-> NoResult ]

\* The history records kept apart in the model.
MaxHistory == 2

\* The database session: the committed GenerationHistory rows and the rows added
\* but not committed.
EmptyDb == [rows |-> <<>>, pending |-> <<>>]

\* An endpoint no request is at.  rows0: the rows when the request came in.
IdleEndpoint(db) ==
    [ at |-> "idle", gen_type |-> "none", generated |-> "none", status |-> 0,
      tasks |-> <<>>, stored |-> "none", db |-> db, rows0 |-> Len(db.rows) ]

Init ==
    /\ groq_client \in BOOLEAN
    /\ hf_token \in BOOLEAN
    /\ op = "none"
    /\ pc = "idle"
    /\ req = BaseRequest
    /\ response = NoResponse
    /\ result = NoResult
    /\ raised = FALSE
    /\ image = NoImage
    /\ model_used = ""
    /\ model_i = 0
    /\ http = <<>>
    /\ provider = [e \in Endpoints |-> "any"]
    /\ last_resp = "none"
    /\ trace = <<>>
    /\ faulted = {}
    /\ rng = 0
    /\ calls = [c \in Calls |-> IdleCall]
    /\ given = BaseRequest
    /\ web = IdleEndpoint(EmptyDb)

\* A read that stores the default under a missing key, as dict.setdefault does.
AfterSetDefault(data, key, default) ==
    [data EXCEPT ![key] = IF @ = Absent THEN default ELSE @]

\* The request mapping after data.get(key, default): the read leaves it as it is.
AfterGet(data, key, default) == data

RECURSIVE AfterGets(_, _)
AfterGets(data, gets) ==
    IF gets = <<>> THEN data
    ELSE AfterGets(AfterGet(data, Head(gets)[1], Head(gets)[2]), Tail(gets))

\* The reads with a default that each operation makes of its request mapping;
\* every other access is data[key] or data.get(key).
EmailGets ==
    << <<"organizer_name", "Event Organizing Team">>, <<"contact_info", "">> >>
InvitationGets ==
    << <<"tone", "formal">>, <<"dress_code", "Elegant Attire">>,
       <<"special_instructions", "">>,
       <<"organizer_name", "The Event Organizing Committee">>,
       <<"theme", "elegant">> >>
PosterGets == << <<"crisp_mode", FALSE>> >>

\* What the text provider is recorded to have answered.
Recorded(outcome, text, prompt) ==
    IF ~groq_client THEN NoResponse
    ELSE [outcome |-> outcome, text |-> IF outcome = "text" THEN text ELSE <<>>,
          prompt |-> prompt]

\* generate_email_content, whole.
GenerateEmailContent ==
    /\ pc = "idle"
    /\ UNCHANGED << rng, calls, web >>
    /\ \E data \in EmailRequests \cup {MinimalRequest}, outcome \in TextOutcomes,
          text \in Texts, pick \in 1..3 :
          /\ given' = data
          /\ req' = AfterGets(data, EmailGets)
          /\ IF EmailRaises(groq_client, data)
             THEN /\ raised' = TRUE
                  /\ response' = NoResponse
                  /\ result' = NoResult
             ELSE /\ raised' = FALSE
                  /\ response' = Recorded(outcome, text,
                                          BuildProfessionalEmailPrompt(data))
                  /\ result' = EmailContent(groq_client, outcome, text, data, pick)
    /\ op' = "email"
    /\ pc' = "done"
    /\ UNCHANGED << groq_client, hf_token, image, model_used, model_i, http,
                    provider, last_resp, trace, faulted >>

\* generate_invitation, whole.
GenerateInvitation ==
    /\ pc = "idle"
    /\ UNCHANGED << rng, calls, web >>
    /\ \E data \in InvitationRequests, outcome \in TextOutcomes,
          text \in InvitationTexts, image_ok \in BOOLEAN, render_fails \in BOOLEAN :
          /\ given' = data
          /\ req' = AfterGets(data, InvitationGets)
          /\ response' = IF data.tone = Null THEN NoResponse
                          ELSE Recorded(outcome, text, BuildPremiumInvitationPrompt(data))
          /\ result' = Invitation(groq_client, outcome, text, image_ok, render_fails, data)
    /\ op' = "invitation"
    /\ pc' = "done"
    /\ UNCHANGED << groq_client, hf_token, raised, image, model_used, model_i, http,
                    provider, last_resp, trace, faulted >>

\* ------------------------------------------------------------------ poster
\* The answer of endpoint e to the next request, when it is free to give `kind`.
Answer(e, kind) ==
    IF provider[e] = "loading" THEN "s503"
    ELSE IF provider[e] = "ready" THEN "ok"
    ELSE kind

ProviderAfter(e) ==
    [provider EXCEPT ![e] = IF @ = "loading" THEN "ready" ELSE "any"]

\* One POST, as the log keeps it: who sent it where, with what, whether the model
\* was loading (503 now, 200 next), and what the adapter made of the answer.
Request(adapter, e, prompt, got) ==
    [ adapter |-> adapter, endpoint |-> e, auth |-> hf_token, prompt |-> prompt,
      loading |-> (provider[e] = "loading"), got |-> got ]

\* An orchestrator that calls the dalle-style adapter whatever SDXL returned.
AfterSdxlAlwaysDalle(ret) == "dalle"

\* Where generate_poster goes after _generate_with_sdxl_premium: `if image:` keeps
\* the image, else the dalle-style adapter is called; an exception goes to the
\* handler.
AfterSdxl(ret) ==
    IF ret = "image" THEN "enhance"
    ELSE IF ret = "none" THEN "dalle"
    ELSE "except"

\* A model loop that asks again until an image comes.
AfterDalleModelNeverGivesUp(ret, i) == IF ret = "image" THEN "enhance" ELSE "dalle"

\* Where _generate_with_dalle_style and generate_poster go after one model: the
\* image is returned and kept, or the loop goes on, and after the last model
\* None is returned and the template is drawn.
AfterDalleModel(ret, i) ==
    IF ret = "image" THEN "enhance"
    ELSE IF ret = "next" THEN (IF i < Len(DalleModels) THEN "dalle" ELSE "template")
    ELSE "except"

\* data['theme'].lower() raises: KeyError without the key, AttributeError on None.
\* Both prompt builders and the template renderer evaluate it.
ThemeRaises(data) == data.theme \in {Absent, Null}

\* A poster request mapping without theme.
ThemelessRequest == [MinimalRequest EXCEPT !.theme = Absent]

\* generate_poster up to its first adapter call.
StartPoster ==
    /\ pc = "idle"
    /\ UNCHANGED << rng, calls, web >>
    /\ \E data \in PosterRequests \cup {ThemelessRequest},
          p \in [Endpoints -> {"any", "loading"}] :
          /\ given' = data
          /\ req' = AfterGets(data, PosterGets)
          /\ provider' = p
    /\ op' = "poster"
    /\ pc' = "sdxl"
    /\ image' = NoImage
    /\ model_used' = "ultimate-fallback"
    /\ UNCHANGED << groq_client, hf_token, response, result, raised, model_i, http,
                    last_resp, trace, faulted >>

\* The call of _generate_with_sdxl_premium and the branch on its result.  When
\* the prompt builder raises, the adapter's handler returns None before any
\* request is sent.
SdxlAttempt ==
    /\ pc = "sdxl"
    /\ UNCHANGED << rng, calls, given, web >>
    /\ IF ThemeRaises(req)
       THEN /\ trace' = Append(trace, <<"sdxl", "none">>)
            /\ pc' = AfterSdxl("none")
            /\ model_i' = IF AfterSdxl("none") = "dalle" THEN 1 ELSE model_i
            /\ image' = NoImage
            /\ UNCHANGED << model_used, http, provider, last_resp >>
       ELSE /\ \E k \in RespKinds, size \in ImageSizes :
                LET kind == Answer("sdxl", k)
                    ret == GenerateWithSdxlPremium(kind)
                IN  /\ last_resp' = kind
                    /\ trace' = Append(trace, <<"sdxl", ret>>)
                    /\ pc' = AfterSdxl(ret)
                    /\ model_i' = IF AfterSdxl(ret) = "dalle" THEN 1 ELSE model_i
                    /\ IF ret = "image"
                       THEN /\ image' = OpenImage(kind, size, "sdxl")
                            /\ model_used' = TagSdxl
                       ELSE /\ image' = NoImage
                            /\ model_used' = model_used
                    /\ http' = Append(http, Request("sdxl", "sdxl",
                                                    BuildPremiumPosterPrompt(req), ret))
            /\ provider' = ProviderAfter("sdxl")
    /\ UNCHANGED << groq_client, hf_token, op, req, response, result, raised, faulted >>

\* One pass of the model loop of _generate_with_dalle_style; on its last pass or
\* on success, the return of the adapter and the branch of generate_poster on it.
DalleAttempt ==
    /\ pc = "dalle"
    /\ UNCHANGED << rng, calls, given, web >>
    /\ LET e == DalleModels[model_i] IN
       IF ThemeRaises(req)
       THEN /\ trace' = Append(trace, <<"dalle_style", "none">>)
            /\ pc' = "template"
            /\ image' = NoImage
            /\ UNCHANGED << model_used, model_i, http, provider, last_resp >>
       ELSE
       /\ \E k \in RespKinds, size \in ImageSizes :
            LET kind == Answer(e, k)
                ret == DalleModelAttempt(kind)
            IN  /\ last_resp' = kind
                /\ pc' = AfterDalleModel(ret, model_i)
                /\ model_i' = IF AfterDalleModel(ret, model_i) = "dalle"
                              THEN model_i + 1 ELSE model_i
                /\ trace' = CASE AfterDalleModel(ret, model_i) = "dalle" -> trace
                               [] AfterDalleModel(ret, model_i) = "template" ->
                                     Append(trace, <<"dalle_style", "none">>)
                               [] OTHER -> Append(trace, <<"dalle_style", ret>>)
                /\ IF ret = "image"
                   THEN /\ image' = OpenImage(kind, size, e)
                        /\ model_used' = TagDalle
                   ELSE /\ image' = NoImage
                        /\ model_used' = model_used
                /\ http' = Append(http, Request("dalle_style", e,
                                                BuildDalleStylePrompt(req), ret))
       /\ provider' = ProviderAfter(e)
    /\ UNCHANGED << groq_client, hf_token, op, req, response, result, raised, faulted >>

\* The third tier: _generate_premium_template_poster, which may raise.
TemplateTier ==
    /\ pc = "template"
    /\ UNCHANGED << rng, calls, given, web >>
    /\ \E fails \in IF ThemeRaises(req) THEN {TRUE} ELSE BOOLEAN :
          IF fails
          THEN /\ trace' = Append(trace, <<"template", "raise">>)
               /\ faulted' = faulted \cup {"template"}
               /\ pc' = "except"
               /\ UNCHANGED << image, model_used >>
          ELSE /\ trace' = Append(trace, <<"template", "image">>)
               /\ image' = GeneratePremiumTemplatePoster(req)
               /\ model_used' = TagTemplate
               /\ pc' = "enhance"
               /\ UNCHANGED faulted
    /\ UNCHANGED << groq_client, hf_token, op, req, response, result, raised, model_i,
                    http, provider, last_resp >>

Noted(fault) == IF fault = "none" THEN faulted ELSE faulted \cup {fault}

\* image = self._apply_premium_enhancements(image, crisp=crisp_mode)
Enhance ==
    /\ pc = "enhance"
    /\ UNCHANGED << rng, calls, given, web >>
    /\ \E fault \in EnhanceFaults :
          /\ fault \in {"none"} \cup
                 { EnhancementSteps(image, req.crisp_mode)[i] :
                     i \in 1..Len(EnhancementSteps(image, req.crisp_mode)) }
          /\ image.ok \/ fault = "none"
          /\ image' = ApplyPremiumEnhancements(image, req.crisp_mode, fault)
          /\ faulted' = Noted(fault)
    /\ trace' = Append(trace, <<"enhance", "returned">>)
    /\ pc' = "overlay"
    /\ UNCHANGED << groq_client, hf_token, op, req, response, result, raised,
                    model_used, model_i, http, provider, last_resp >>

\* image = self._add_premium_text_overlay(image, request_data)
Overlay ==
    /\ pc = "overlay"
    /\ UNCHANGED << rng, calls, given, web >>
    /\ \E fault \in OverlayFaults :
          /\ image.ok \/ fault = "none"
          /\ image' = AddPremiumTextOverlay(image, fault)
          /\ faulted' = Noted(fault)
    /\ trace' = Append(trace, <<"overlay", "returned">>)
    /\ pc' = "finalize"
    /\ UNCHANGED << groq_client, hf_token, op, req, response, result, raised,
                    model_used, model_i, http, provider, last_resp >>

\* image = self._finalize_premium_poster(image)
Finalize ==
    /\ pc = "finalize"
    /\ UNCHANGED << rng, calls, given, web >>
    /\ \E fault \in FinalizeFaults :
          /\ fault \in {"none"} \cup
                 { FinalizeSteps(image)[i] : i \in 1..Len(FinalizeSteps(image)) }
          /\ image.ok \/ fault = "none"
          /\ image' = FinalizePremiumPoster(image, fault)
          /\ faulted' = Noted(fault)
    /\ trace' = Append(trace, <<"finalize", "returned">>)
    /\ pc' = "encode"
    /\ UNCHANGED << groq_client, hf_token, op, req, response, result, raised,
                    model_used, model_i, http, provider, last_resp >>

\* image.save(...), the prompt, and the return of the main path; save raises on
\* pixel data that cannot be decoded, which takes generate_poster to its handler.
Encode ==
    /\ pc = "encode"
    /\ UNCHANGED << rng, calls, given, web >>
    /\ IF image.ok
       THEN /\ result' = PosterResult(image, req, model_used)
            /\ trace' = Append(trace, <<"encode", "returned">>)
            /\ pc' = "done"
       ELSE /\ result' = result
            /\ trace' = Append(trace, <<"encode", "raise">>)
            /\ pc' = "except"
    /\ UNCHANGED << groq_client, hf_token, op, req, response, raised, image,
                    model_used, model_i, http, provider, last_resp, faulted >>

\* The except branch of generate_poster: the template again, which may raise again,
\* and then nothing catches it.
ExceptionFallback ==
    /\ pc = "except"
    /\ UNCHANGED << rng, calls, given, web >>
    /\ \E fails \in IF ThemeRaises(req) THEN {TRUE} ELSE BOOLEAN :
          IF fails
          THEN /\ trace' = Append(trace, <<"fallback_template", "raise">>)
               /\ faulted' = faulted \cup {"fallback_template"}
               /\ raised' = TRUE
               /\ result' = result
          ELSE /\ trace' = Append(trace, <<"fallback_template", "image">>)
               /\ faulted' = faulted
               /\ raised' = FALSE
               /\ result' = PosterFallbackResult(req)
    /\ pc' = "done"
    /\ UNCHANGED << groq_client, hf_token, op, req, response, image, model_used,
                    model_i, http, provider, last_resp >>

\* The operation is over; the service takes the next request.
Return ==
    /\ pc = "done"
    /\ UNCHANGED << rng, calls, web >>
    /\ op' = "none"
    /\ pc' = "idle"
    /\ req' = BaseRequest
    /\ given' = BaseRequest
    /\ response' = NoResponse
    /\ result' = NoResult
    /\ raised' = FALSE
    /\ image' = NoImage
    /\ model_used' = ""
    /\ model_i' = 0
    /\ http' = <<>>
    /\ provider' = [e \in Endpoints |-> "any"]
    /\ last_resp' = "none"
    /\ trace' = <<>>
    /\ faulted' = {}
    /\ UNCHANGED << groq_client, hf_token >>

Next ==
    \/ GenerateEmailContent
    \/ GenerateInvitation
    \/ StartPoster
    \/ SdxlAttempt
    \/ DalleAttempt
    \/ TemplateTier
    \/ Enhance
    \/ Overlay
    \/ Finalize
    \/ Encode
    \/ ExceptionFallback
    \/ Return

Spec == Init /\ [][Next]_vars

\* ------------------------------------------- requests on the shared instance
\* Several generate_email requests against the module-level ai_service.  Every
\* invocation has its own locals (request_data, response_text, the result); the
\* instance holds groq_client, assigned in __init__ only; random.choice in
\* _generate_professional_subject reads and advances the generator of module
\* random, which the process has once.
PipelineVars == << groq_client, hf_token, op, pc, req, response, result, raised,
                   image, model_used, model_i, http, provider, last_resp, trace,
                   faulted, given >>

\* Requests the email pipeline answers, with different template bodies.
SharedRequests == { d \in EmailRequests : d.event_type = "conference" }

\* Provider answers with and without a subject line.
SharedTexts ==
    { << <<"w">> >>,
      << <<"SUBJECT:", Space, "W">> >>,
      << <<"SUBJECT:", Space, "W", Space, "BODY:", Space, "w">> >> }

\* random.choice(templates): the index comes from the generator's state, and the
\* draw moves the generator on.
Choice(r, templates) == (r % Len(templates)) + 1
NextRandom(r) == (r + 1) % RngPeriod

\* A service whose every invocation draws from the generator.
DrawsSubjectAlways(configured, outcome, text) == TRUE

\* Whether the invocation reaches _generate_professional_subject: on every
\* fallback path, and after parsing when the text gave no subject.
DrawsSubject(configured, outcome, text) ==
    \/ ~configured
    \/ outcome \in {"raises", "null"}
    \/ ParseLoop(text, 1, <<>>, <<>>, FALSE).subject = <<>>

\* The result of an invocation that finds the generator in state r.
CallResult(call, r) ==
    EmailContent(groq_client, call.outcome, call.text, call.req,
                 Choice(r, SubjectTemplates(call.req)))

\* The endpoint hands request.dict() to ai_service.generate_email_content.
Submit(c) ==
    /\ calls[c].at = "idle"
    /\ \E data \in SharedRequests :
          calls' = [calls EXCEPT ![c] = [IdleCall EXCEPT !.at = "submitted",
                                                         !.req = data]]
    /\ UNCHANGED << PipelineVars, rng, web >>

\* The chat-completion call of this invocation returns or raises.
ProviderAnswers(c) ==
    /\ calls[c].at = "submitted"
    /\ groq_client
    /\ \E outcome \in TextOutcomes, text \in SharedTexts :
          calls' = [calls EXCEPT ![c].at = "answered",
                                 ![c].outcome = outcome,
                                 ![c].text = IF outcome = "text" THEN text ELSE <<>>]
    /\ UNCHANGED << PipelineVars, rng, web >>

\* The rest of generate_email_content: parsing or fallback, with the draw of the
\* subject where the path has one.
Complete(c) ==
    /\ \/ calls[c].at = "answered"
       \/ calls[c].at = "submitted" /\ ~groq_client
    /\ LET call == calls[c]
           draws == DrawsSubject(groq_client, call.outcome, call.text)
       IN  /\ calls' = [calls EXCEPT ![c].at = "done",
                                     ![c].drew = IF draws THEN {rng} ELSE {},
                                     ![c].result = CallResult(call, rng)]
           /\ rng' = IF draws THEN NextRandom(rng) ELSE rng
    /\ UNCHANGED << PipelineVars, web >>

\* The endpoint answers with the result; the invocation's locals are gone.
Respond(c) ==
    /\ calls[c].at = "done"
    /\ calls' = [calls EXCEPT ![c] = IdleCall]
    /\ UNCHANGED << PipelineVars, rng, web >>

NextShared ==
    \/ \E c \in Calls : Submit(c)
    \/ \E c \in Calls : ProviderAnswers(c)
    \/ \E c \in Calls : Complete(c)
    \/ \E c \in Calls : Respond(c)

SpecShared == Init /\ [][NextShared]_vars

\* --------------------------------------------------------------- endpoints
\* generate_email, generate_poster and generate_invitation of endpoints.py, and
\* the background task store_generation_history.
GenTypes == {"email", "poster", "invitation"}

\* Where store_generation_history may fail: nowhere, at db.add, at db.commit.
StoreFaults == {"none", "add", "commit"}

\* A store whose handler does not roll back: the row added stays in the session
\* and goes out with the next commit.
StoreWithoutRollback(db, gen_type, fault) ==
    IF fault = "none" THEN [db EXCEPT !.rows = @ \o db.pending \o <<gen_type>>,
                                      !.pending = <<>>]
    ELSE IF fault = "commit" THEN [db EXCEPT !.pending = Append(@, gen_type)]
    ELSE db

\* store_generation_history: db.add, db.commit; on an exception db.rollback().
StoreGenerationHistory(db, gen_type, fault) ==
    IF fault = "none" THEN [db EXCEPT !.rows = @ \o db.pending \o <<gen_type>>,
                                      !.pending = <<>>]
    ELSE [db EXCEPT !.pending = <<>>]

\* A request reaches an endpoint.
Receive ==
    /\ web.at = "idle"
    /\ Len(web.db.rows) < MaxHistory
    /\ \E t \in GenTypes :
          web' = [IdleEndpoint(web.db) EXCEPT !.at = "called", !.gen_type = t]
    /\ UNCHANGED << PipelineVars, rng, calls >>

\* result = ai_service.generate_...(request.dict()): it returns or it raises.
Generate ==
    /\ web.at = "called"
    /\ \E outcome \in {"returned", "raised"} :
          web' = [web EXCEPT !.at = "generated", !.generated = outcome]
    /\ UNCHANGED << PipelineVars, rng, calls >>

\* The rest of the endpoint: after a result, background_tasks.add_task and the
\* JSONResponse; after an exception, the handler's HTTPException(500).
Respond200 ==
    /\ web.at = "generated"
    /\ web.generated = "returned"
    /\ web' = [web EXCEPT !.at = "responded", !.status = 200,
                          !.tasks = Append(@, web.gen_type)]
    /\ UNCHANGED << PipelineVars, rng, calls >>

Respond500 ==
    /\ web.at = "generated"
    /\ web.generated = "raised"
    /\ web' = [web EXCEPT !.at = "responded", !.status = 500]
    /\ UNCHANGED << PipelineVars, rng, calls >>

\* The background task runs after the response was sent.
RunTask ==
    /\ web.at = "responded"
    /\ web.tasks # <<>>
    /\ \E fault \in StoreFaults :
          web' = [web EXCEPT !.tasks = Tail(@),
                             !.stored = fault,
                             !.db = StoreGenerationHistory(web.db, Head(web.tasks),
                                                           fault)]
    /\ UNCHANGED << PipelineVars, rng, calls >>

\* The request is over; the database stays.
Finish ==
    /\ web.at = "responded"
    /\ web.tasks = <<>>
    /\ web' = IdleEndpoint(web.db)
    /\ UNCHANGED << PipelineVars, rng, calls >>

\* /history is emptied (reset_db.py).
ResetDb ==
    /\ web.at = "idle"
    /\ web.db.rows # <<>>
    /\ web' = IdleEndpoint(EmptyDb)
    /\ UNCHANGED << PipelineVars, rng, calls >>

NextEndpoint ==
    \/ Receive
    \/ Generate
    \/ Respond200
    \/ Respond500
    \/ RunTask
    \/ Finish
    \/ ResetDb

SpecEndpoint == Init /\ [][NextEndpoint]_vars

\* ================================================================== claims
\* An operation has returned a result mapping (it did not let an exception out).
Returned(o) == op = o /\ pc = "done" /\ ~raised
Canvas == <<PosterWidth, PosterHeight>>

\* C1: for every valid email request, the result of generate_email_content has a
\* non-empty subject and a non-empty body, whether the text provider is not
\* configured, raises, answers without markers, answers with an empty or
\* whitespace-only string, or answers well-formed.
C1_EmailSubjectAndBodyNonEmpty ==
    Returned("email") =>
        /\ result.subject # <<>>
        /\ ~IsEmptyStr(result.body)
        /\ ~IsBlank(result.body)

\* The provider answered with nothing but whitespace and the parser returned.
C1_WhitespaceAnswerParsed ==
    /\ Returned("email")
    /\ groq_client
    /\ response.outcome = "text"
    /\ IsBlank(response.text)
    /\ result.model_used = "llama-3.1-70b-professional"

\* C2: for every valid poster request and every combination of answers of the
\* image providers, the result of generate_poster carries an image of the one
\* poster canvas size, whichever tier produced it.
C2_PosterHasCanvasSize ==
    Returned("poster") =>
        /\ result.image_url.ok
        /\ <<result.image_url.w, result.image_url.h>> = Canvas

\* A provider image of another size came back from SDXL and was returned resized.
C2_ProviderImageResized ==
    /\ Returned("poster")
    /\ result.model_used = TagSdxl
    /\ result.image_url.src = "sdxl"
    /\ \E i \in 1..Len(result.image_url.applied) :
          result.image_url.applied[i] = "fit_canvas"

\* C3: every result the three operations return has status success; no provider,
\* parse or rendering failure makes one of them return status error.
C3_StatusAlwaysSuccess ==
    (pc = "done" /\ ~raised) => result.status = "success"

\* generate_poster returned from its exception handler.
C3_PosterReturnedFromHandler ==
    /\ Returned("poster")
    /\ trace # <<>>
    /\ trace[Len(trace)] = <<"fallback_template", "image">>

\* C4: every result the three operations return holds a non-empty model_used, on
\* the success path and on every fallback path.
C4_ModelUsedNonEmpty ==
    (pc = "done" /\ ~raised) => result.model_used # ""

\* generate_invitation returned from its exception handler.
C4_InvitationReturnedFromHandler ==
    /\ Returned("invitation")
    /\ groq_client
    /\ req.tone = Null
    /\ result.model_used = "premium-fallback-template"

\* ------------------------------------------------------------ poster tiers
InTrace(e) == \E i \in 1..Len(trace) : trace[i] = e
Before(e, i) == \E j \in 1..(i - 1) : trace[j] = e
TierStages == {"sdxl", "dalle_style", "template"}
FromHandler == trace # <<>> /\ trace[Len(trace)] = <<"fallback_template", "image">>
IsTemplateImage(im) == im.src = "template"

\* The three equivalences between the tag and the tier outcomes.
TagMatchesTiers ==
    /\ result.model_used = TagSdxl <=> InTrace(<<"sdxl", "image">>)
    /\ result.model_used = TagDalle <=>
          (InTrace(<<"sdxl", "none">>) /\ InTrace(<<"dalle_style", "image">>))
    /\ result.model_used = TagTemplate <=>
          (InTrace(<<"sdxl", "none">>) /\ InTrace(<<"dalle_style", "none">>)
             /\ InTrace(<<"template", "image">>))
    /\ IsTemplateImage(result.image_url) => result.model_used \notin {TagSdxl, TagDalle}

\* C5 as stated: in every poster result, model_used is the SDXL tag iff the SDXL
\* adapter returned an image, the dalle-style tag iff SDXL failed and dalle-style
\* returned an image, the template tag iff both failed and the template was
\* drawn, and never a provider tag on a template image.
C5_TagNamesTierInEveryResult ==
    Returned("poster") => TagMatchesTiers

\* C5: in a poster result of the main path the tag names the tier as stated and
\* the payload is that tier's image; a result of the exception handler is tagged
\* ultimate-premium-fallback and carries a template image, whichever adapter had
\* returned an image before; no result has a provider tag on a template image.
C5_TagNamesTierOnMainPath ==
    Returned("poster") =>
        /\ ~FromHandler =>
              /\ TagMatchesTiers
              /\ result.model_used = TagSdxl => result.image_url.src = "sdxl"
              /\ result.model_used = TagDalle => result.image_url.src \in Endpoints
              /\ result.model_used = TagTemplate => IsTemplateImage(result.image_url)
        /\ FromHandler =>
              /\ result.model_used = TagException
              /\ IsTemplateImage(result.image_url)
        /\ IsTemplateImage(result.image_url) => result.model_used \notin {TagSdxl, TagDalle}
        /\ result.model_used \in {TagSdxl, TagDalle, TagTemplate, TagException}

\* SDXL returned an image, and the result came from the exception handler.
C5_HandlerAfterSdxlImage ==
    /\ Returned("poster")
    /\ InTrace(<<"sdxl", "image">>)
    /\ result.model_used = TagException

\* The tiers one after another: dalle-style only after SDXL returned None, the
\* template tier only after both adapters returned None, no tier after a tier
\* that returned an image; the requests in the same order, one at a time, each
\* after the one before it brought no image.
TiersInRankedOrder ==
    /\ \A i \in 1..Len(trace) :
          /\ trace[i][1] = "dalle_style" => Before(<<"sdxl", "none">>, i)
          /\ trace[i][1] = "template" =>
                Before(<<"sdxl", "none">>, i) /\ Before(<<"dalle_style", "none">>, i)
          /\ (trace[i][1] \in TierStages /\ trace[i][2] = "image") =>
                \A j \in (i + 1)..Len(trace) : trace[j][1] \notin TierStages
    /\ Len(http) <= 1 + Len(DalleModels)
    /\ \A i \in 1..Len(http) :
          /\ http[i].adapter = (IF i = 1 THEN "sdxl" ELSE "dalle_style")
          /\ http[i].endpoint = (IF i = 1 THEN "sdxl" ELSE DalleModels[i - 1])
          /\ i < Len(http) => http[i].got # "image"

\* C6 as stated: the tiers are attempted one after another in ranked order, and
\* the Template Renderer is invoked only after every image-provider tier has
\* been attempted and has failed.
C6_TemplateOnlyAfterExhaustion ==
    /\ TiersInRankedOrder
    /\ \A i \in 1..Len(trace) :
          trace[i][1] \in {"template", "fallback_template"} =>
             Before(<<"sdxl", "none">>, i) /\ Before(<<"dalle_style", "none">>, i)

\* C6: the tiers are attempted one after another in ranked order, the template
\* tier only after every provider tier has failed; besides, the exception
\* handler invokes the Template Renderer, right after an exception in the main
\* path and whether or not a provider tier had succeeded.
C6_TiersSequentialTemplateAlsoInHandler ==
    /\ TiersInRankedOrder
    /\ \A i \in 1..Len(trace) :
          trace[i][1] = "fallback_template" =>
             /\ i > 1
             /\ trace[i - 1][2] = "raise"
             /\ i = Len(trace)

\* The handler drew the template although the dalle-style tier had an image.
C6_HandlerTemplateAfterDalleImage ==
    /\ op = "poster"
    /\ InTrace(<<"dalle_style", "image">>)
    /\ InTrace(<<"fallback_template", "image">>)
    /\ Len(http) = 3

\* C7: every poster result went through prompt, provider attempt (or template
\* after exhaustion), post-processing, text overlay, in this order; none skipped
\* post-processing or overlay, results returned after an exception included.
C7_EveryResultWentThroughAllStages ==
    Returned("poster") =>
        /\ result.image_url.stages = <<"enhance", "overlay", "finalize">>
        /\ \E i \in 1..Len(trace) :
              /\ trace[i][1] \in TierStages /\ trace[i][2] = "image"
              /\ i + 3 <= Len(trace)
              /\ trace[i + 1][1] = "enhance"
              /\ trace[i + 2][1] = "overlay"
              /\ trace[i + 3][1] = "finalize"

\* C8: each image adapter returns an image or the failure value for every
\* behaviour of the provider (a status other than 200, a timeout, a connection
\* error, bytes that are no image); no exception leaves it.
C8_AdaptersNeverRaise ==
    /\ \A i \in 1..Len(trace) :
          trace[i][1] \in {"sdxl", "dalle_style"} => trace[i][2] \in {"image", "none"}
    /\ \A i \in 1..Len(http) : http[i].got \in {"image", "none", "next"}
    /\ pc = "except" => trace[Len(trace)][1] \notin {"sdxl", "dalle_style"}

\* The SDXL request timed out and generate_poster went on to the next tier.
C8_SdxlTimeoutGaveNone ==
    /\ op = "poster"
    /\ pc = "dalle"
    /\ last_resp = "timeout"
    /\ trace = << <<"sdxl", "none">> >>

\* An adapter has returned to generate_poster.
AdapterReturned(a) == \E i \in 1..Len(trace) : trace[i][1] = a

\* C9: when an image provider answers 503 once and would answer 200 to the next
\* request, the adapter retries the same provider and returns the image of the
\* second answer instead of signalling failure.
C9_RetriesAfter503 ==
    \A i \in 1..Len(http) :
        (http[i].loading /\ AdapterReturned(http[i].adapter)) =>
            /\ i < Len(http)
            /\ http[i + 1].adapter = http[i].adapter
            /\ http[i + 1].endpoint = http[i].endpoint
            /\ http[i + 1].got = "image"
            /\ InTrace(<<http[i].adapter, "image">>)

\* ----------------------------------------------------------- invitation QR
Contains(seq, t) == \E i \in 1..Len(seq) : seq[i] = t

\* C10: in every invitation result, qr_code_url is null when the request has no
\* rsvp_email; with an rsvp_email it is a QR code whose content is a mailto:
\* string addressed to rsvp_email that contains the event name and the date; on
\* the normal path and on the exception-fallback path.
C10_QrFollowsRsvpEmail ==
    Returned("invitation") =>
        IF ~Truthy(req.rsvp_email)
        THEN ~result.qr_code_url.some
        ELSE /\ result.qr_code_url.some
             /\ Len(result.qr_code_url.val) >= 2
             /\ result.qr_code_url.val[1] = "mailto:"
             /\ result.qr_code_url.val[2] = req.rsvp_email
             /\ Contains(result.qr_code_url.val, req.event_name)
             /\ Contains(result.qr_code_url.val, req.date)

\* -------------------------------------------------------------- credentials
\* C11: a provider whose credential is absent is treated as unavailable: no
\* request is sent to it, the pipeline goes on to the next tier, and nothing is
\* surfaced to the caller.
C11_NoCallWithoutCredential ==
    /\ ~groq_client => response = NoResponse
    /\ ~hf_token => http = <<>>
    /\ (~hf_token /\ op = "poster" /\ trace # <<>>) => trace[1] = <<"sdxl", "none">>

\* ---------------------------------------------------------------- prompt
\* C14: in a poster result whose image came from an image provider, prompt_used
\* is the prompt that was sent to the tier named in model_used.
C14_PromptUsedIsPromptSent ==
    (Returned("poster") /\ result.model_used \in {TagSdxl, TagDalle}) =>
        \E i \in 1..Len(http) :
            /\ http[i].got = "image"
            /\ http[i].adapter = (IF result.model_used = TagSdxl THEN "sdxl"
                                  ELSE "dalle_style")
            /\ result.prompt_used = http[i].prompt

\* ------------------------------------------------------- email provenance
TagLlama == "llama-3.1-70b-professional"
TagEmailFallback == "professional-fallback-template"

\* The subject is one of the chooser's templates for the request.
SubjectSynthesized == \E k \in 1..3 : result.subject = SubjectTemplates(req)[k]
\* The body is the prose template filled from the request, formatted or not.
BodySynthesized ==
    result.body \in { ProfessionalEmailTemplate(req),
                      EnhanceEmailFormatting(ProfessionalEmailTemplate(req)) }

\* C18: in an email result model_used names the text provider only when provider
\* text is in the result; when subject and body both come from the fallback
\* templates, model_used names the fallback tier.
C18_ProviderTagOnlyWithProviderText ==
    Returned("email") =>
        /\ result.model_used \in {TagLlama, TagEmailFallback}
        /\ (SubjectSynthesized /\ BodySynthesized) => result.model_used = TagEmailFallback

\* C19: the returned email body is in the normal form of _enhance_email_formatting
\* (no blank line but the separators, each line starting upper-case, lines
\* separated by one blank line), from the provider and from the fallback alike.
C19_BodyAlwaysNormalized ==
    Returned("email") => result.body = EnhanceEmailFormatting(result.body)

\* A marker occurs nowhere in the provider's text.
MarkerMissing(text) ==
    \/ ~\E i \in 1..Len(text) : Contains(text[i], "SUBJECT:")
    \/ ~\E i \in 1..Len(text) : Contains(text[i], "BODY:")

\* C20: when the provider's text lacks a marker, the returned subject comes from
\* the subject chooser and the returned body is the prose template filled from
\* the request, not provider text.
C20_MissingMarkerGivesTemplates ==
    (Returned("email") /\ response.outcome = "text" /\ MarkerMissing(response.text)) =>
        SubjectSynthesized /\ BodySynthesized


\* ------------------------------------------------------ end-to-end scenario
\* The request carries event_name, event_type, date, time, venue, theme and tone
\* and none of target_audience, key_points, organizer_name, contact_info.
OnlyCoreFields(data) ==
    /\ data.theme # Absent
    /\ data.tone # Absent
    /\ data.target_audience = Absent
    /\ data.key_points = NoKeyPoints
    /\ data.organizer_name = Absent
    /\ data.contact_info = Absent

\* No provider is available: no credential, and no image model answers an image.
AllProvidersUnavailable ==
    /\ ~groq_client
    /\ ~hf_token
    /\ \A i \in 1..Len(http) : http[i].got # "image"

\* C12: with every provider unavailable, a request of the core fields alone
\* gets status success and a fallback-tier model_used from generate_email_content
\* and from generate_poster (rendering working), and the email body contains the
\* venue string.
C12_CoreFieldsRequestSucceeds ==
    (pc = "done" /\ op \in {"email", "poster"} /\ OnlyCoreFields(req)
        /\ AllProvidersUnavailable /\ faulted = {}) =>
        /\ ~raised
        /\ result.status = "success"
        /\ op = "email" =>
              /\ result.model_used = TagEmailFallback
              /\ \E i \in 1..Len(result.body) : Contains(result.body[i], req.venue)
        /\ op = "poster" => result.model_used \in {TagTemplate, TagException}


\* ----------------------------------------------------------------- overlay
OverlayApplied(im) == Contains(im.stages, "overlay")

\* C13: generate_poster applies the text overlay if and only if the request's
\* generation_type is full_poster; with generation_type background the returned
\* image has had no overlay stage.
C13_OverlayOnlyForFullPoster ==
    Returned("poster") =>
        (OverlayApplied(result.image_url) <=> req.generation_type = "full_poster")


\* ----------------------------------------------------------- lookup tables
NonEmptyTokens(seq) == seq # <<>> /\ \A i \in 1..Len(seq) : seq[i] # ""
\* The entry a table should give for a string: its own entry when the string is
\* a key in some letter case, the default entry otherwise.
Entry(keys, t, default) ==
    IF \E k \in keys : k = Lower(t) THEN CHOOSE k \in keys : k = Lower(t) ELSE default
DefaultSubjectOpenings == {"Important:", "Don't Miss Out:", "Exclusive Invitation:"}

\* C16: for every theme and event-type string, recognised or not and in any
\* letter case, the prompt builders, the colour-scheme lookups and the subject
\* chooser give a non-empty result, and an unrecognised string gives the default
\* entry.
C16_LookupsAreDefaultBacked ==
    /\ \A i \in 1..Len(http) :
          LET p == http[i].prompt IN
          /\ NonEmptyTokens(p)
          /\ http[i].adapter = "sdxl" =>
                /\ p[3] = Entry(EventTypes, req.event_type, "professional premium event")
                /\ p[4] = Entry(PremiumThemes, req.theme, "professional")
          /\ http[i].adapter = "dalle_style" =>
                p[4] = Entry(DalleStyles, req.theme,
                             "professional corporate design::3 modern::2")
    /\ (op = "email" /\ response.outcome # "none") =>
          /\ NonEmptyTokens(response.prompt)
          /\ response.prompt[4] = Entry(EventTypes, req.event_type, "professional gathering")
    /\ (op = "poster" /\ IsTemplateImage(image)) =>
          image.scheme = Entry(TemplateSchemes, req.theme, "professional")
    /\ (Returned("poster") /\ IsTemplateImage(result.image_url)) =>
          result.image_url.scheme = Entry(TemplateSchemes, req.theme, "professional")
    /\ (Returned("invitation") /\ result.invitation_design.some
          /\ result.invitation_design.val.src = "fallback-design") =>
          result.invitation_design.val.scheme =
             Entry(InvitationSchemes, Get(req, "theme", "elegant"), "elegant")
    /\ (Returned("email") /\ SubjectSynthesized) =>
          /\ NonEmptyTokens(result.subject)
          /\ req.event_type \notin {"workshop", "conference", "social"} =>
                result.subject[1] \in DefaultSubjectOpenings

\* An unrecognised theme went through both prompt builders and the template.
C16_UnknownThemeThroughAllTables ==
    /\ Returned("poster")
    /\ req.theme = "retro"
    /\ Len(http) = 1 + Len(DalleModels)
    /\ result.model_used = TagTemplate
    /\ result.image_url.scheme = "professional"


\* ------------------------------------------------------- template failures
\* C15: a failure inside the Template Renderer during a poster request never
\* reaches the caller: generate_poster returns a result rather than raising,
\* also when _generate_premium_template_poster itself raises.
C15_PosterNeverRaises ==
    (op = "poster" /\ pc = "done") => (~raised /\ result.status = "success")


\* ------------------------------------------------- requests side by side
\* Two finished invocations that had the same request and the same provider
\* outcome.
SameCall(c, d) ==
    /\ c # d
    /\ calls[c].at = "done" /\ calls[d].at = "done"
    /\ calls[c].req = calls[d].req
    /\ calls[c].outcome = calls[d].outcome
    /\ calls[c].text = calls[d].text

StepApplied(step) == \E i \in 1..Len(image.applied) : image.applied[i] = step

\* The colour and sharpening steps of _apply_premium_enhancements, in order.
ChainSteps(crisp) ==
    <<"detail", "unsharp", "contrast", "color", "brightness", "sharpness">>
    \o (IF ~crisp THEN <<"tone_mapping">> ELSE <<>>)
    \o <<"final_unsharp">>

\* C21: in _apply_premium_enhancements each step of the filter chain is skipped
\* on its own: when step k fails, the image before step k is carried forward and
\* every later step is still applied to it.
C21_LaterStepsStillApplied ==
    (op = "poster" /\ pc = "overlay" /\ image.ok) =>
        \A i \in 1..Len(ChainSteps(req.crisp_mode)) :
            ChainSteps(req.crisp_mode)[i] \notin faulted
                => StepApplied(ChainSteps(req.crisp_mode)[i])


\* C22: when _add_premium_text_overlay fails after it has started drawing, the
\* image handed to the next stage is the image that entered the overlay stage,
\* with no band, panel or text of the failed overlay in it.
C22_FailedOverlayLeavesNoTrace ==
    (op = "poster" /\ pc = "finalize" /\ faulted \cap {"title", "cta"} # {}) =>
        \A i \in 1..Len(OverlaySteps) : ~StepApplied(OverlaySteps[i])

\* How often, and where first, the image has been through a step.
TimesApplied(step) ==
    Cardinality({ i \in 1..Len(image.applied) : image.applied[i] = step })
AppliedBefore(a, b) ==
    \E i, j \in 1..Len(image.applied) :
        i < j /\ image.applied[i] = a /\ image.applied[j] = b
LastApplied(step) ==
    image.applied # <<>> /\ image.applied[Len(image.applied)] = step
ColourSteps == {"contrast", "color", "brightness", "sharpness"}

C24_UpscaleOnlyEnlarges ==
    [][ (op = "poster" /\ pc = "enhance" /\ pc' = "overlay") =>
           /\ image'.w >= image.w
           /\ image'.h >= image.h
           /\ (image.w >= MinWorkingSize /\ image.h >= MinWorkingSize)
                 => (image'.w = image.w /\ image'.h = image.h) ]_vars

\* ---------------------------------------------------------- invitation text
\* C25: generate_invitation returns a non-empty invitation_text for any valid
\* request under every text-provider behaviour (not configured, call raises,
\* empty string, null content, normal text): when the provider yields nothing
\* usable, the invitation template text is used instead.
C25_InvitationTextNonEmpty ==
    Returned("invitation") =>
        /\ result.invitation_text.some
        /\ ~IsBlank(result.invitation_text.val)

\* ------------------------------------------------------- requests per model
\* C26: within one poster request no image model endpoint is requested more than
\* once: after the SDXL model has failed as the first tier, no later tier
\* requests it again.
C26_NoEndpointRequestedTwice ==
    \A i, j \in 1..Len(http) : i < j => http[i].endpoint # http[j].endpoint

\* ------------------------------------------------------------- termination
\* The provider calls of the running operation stay within their bounds: four
\* image requests for a poster, none by the text operations (whose one
\* chat-completion call is in `response`), and the model loop stays in its list.
ProviderCallsBounded ==
    /\ Len(http) <= 1 + Len(DalleModels)
    /\ op \in {"email", "invitation"} => (pc = "done" /\ http = <<>>)
    /\ op = "poster" /\ pc = "dalle" => model_i \in 1..Len(DalleModels)
    /\ model_i <= Len(DalleModels)

\* What is left of a poster request, as a number that every step lowers: the
\* stages in the order generate_poster reaches them, the model loop by the models
\* still to ask.
StepsLeft ==
    CASE pc = "sdxl" -> 8 + Len(DalleModels)
      [] pc = "dalle" -> 8 + Len(DalleModels) - model_i
      [] pc = "template" -> 7
      [] pc = "enhance" -> 6
      [] pc = "overlay" -> 5
      [] pc = "finalize" -> 4
      [] pc = "encode" -> 3
      [] pc = "except" -> 2
      [] pc = "done" -> 1
      [] OTHER -> 0

Running == pc \notin {"idle", "done"}

\* C27: assuming every network call eventually returns or times out, every
\* invocation of generate_email_content, generate_poster and generate_invitation
\* eventually finishes (returns or raises) after a bounded number of provider
\* calls: at most one text-provider call for email, at most four image-provider
\* requests for a poster, and no provider is retried in an unbounded loop.  The
\* calls stay within their bounds, an operation that has not finished can always
\* take its next step, and every step brings it nearer to its end.
C27_FinishesAfterBoundedCalls ==
    /\ []ProviderCallsBounded
    /\ [](Running => ENABLED Next)
    /\ [][Running => (StepsLeft' < StepsLeft /\ StepsLeft' >= 1)]_vars

\* A poster request finished after every image model had failed: four requests.
C27_PosterDoneAfterFourRequests ==
    /\ op = "poster" /\ pc = "done"
    /\ Len(http) = 4
    /\ \A i \in 1..Len(http) : http[i].got # "image"


\* ---------------------------------------------------------- request mapping
\* C28: no operation of AIService modifies the request mapping it is given:
\* after generate_email_content, generate_poster or generate_invitation returns
\* or raises, and at every step before, every field of request_data has the
\* value it had before the call.
C28_RequestMappingUnchanged ==
    (pc # "idle") => req = given

\* generate_invitation returned for a mapping without tone, dress_code and
\* organizer_name, which it read with defaults; the keys are still missing.
C28_DefaultsReadKeysStillMissing ==
    /\ Returned("invitation")
    /\ given.tone = Absent /\ given.organizer_name = Absent
    /\ req.tone = Absent /\ req.organizer_name = Absent


\* ------------------------------------------------------------------ history
\* The rows this request has added to the history.
RowsAdded == Len(web.db.rows) - web.rows0

\* C29: at the endpoints a request whose generation raised schedules no history
\* record; a request whose generation returned schedules at most one, written
\* only after the result was computed; and a failure inside
\* store_generation_history is rolled back, leaves no record, and never changes
\* the response already chosen for the caller.
C29_HistoryFollowsGeneration ==
    /\ web.generated = "raised" => (web.tasks = <<>> /\ RowsAdded = 0
                                      /\ web.stored = "none")
    /\ Len(web.tasks) <= 1 /\ RowsAdded \in {0, 1}
    /\ (web.tasks # <<>> \/ RowsAdded = 1) =>
          (web.generated = "returned" /\ web.status = 200)
    /\ RowsAdded = 1 => web.stored = "none" /\ web.tasks = <<>>
    /\ web.stored \in {"add", "commit"} =>
          /\ RowsAdded = 0
          /\ web.db.pending = <<>>
          /\ web.status = 200
    /\ web.at = "idle" => web.db.pending = <<>>

\* store_generation_history failed at commit after a generation that returned.
C29_StoreFailedAfterResponse ==
    /\ web.at = "responded"
    /\ web.generated = "returned"
    /\ web.stored = "commit"
    /\ web.rows0 >= 1

\* ----------------------------------------------------------- default values
TextHas(text, token) == \E i \in 1..Len(text) : HasToken(text[i], {token})
NotProvided(v) == v \in {Absent, Null}

\* C30: when the request does not provide an organizer name (the field is absent
\* or null), the fallback email body and the fallback invitation text use the
\* documented default organizer name and never the text of a null value; the
\* same holds for dress_code, special_instructions and contact_info.
C30_DefaultsForMissingFields ==
    /\ (Returned("email") /\ result.model_used = TagEmailFallback
          /\ NotProvided(req.organizer_name)) =>
          /\ TextHas(result.body, "Event Organizing Team")
          /\ ~TextHas(result.body, "None")
    /\ (Returned("invitation")
          /\ result.model_used \in {"premium-template", "premium-fallback"}) =>
          /\ NotProvided(req.organizer_name) =>
                TextHas(result.invitation_text.val, "The Event Organizing Committee")
          /\ NotProvided(req.dress_code) =>
                TextHas(result.invitation_text.val, "Elegant Attire")
          /\ ~TextHas(result.invitation_text.val, "None")

====
